---- MODULE Spec2Model ----
(***************************************************************************)
(* State-machine model of gl-mcp-python: the session store and JSON-RPC    *)
(* dispatcher of gl_mcp/mcp/transport.py, the tool registry of             *)
(* gl_mcp/mcp/server.py and the provider layer of gl_mcp/providers.        *)
(*                                                                         *)
(* The program runs on one asyncio event loop: the code between two awaits *)
(* is one atomic step.  Every action below is one such step of a handler;  *)
(* a handler that awaits something external (the role extractor, a tool    *)
(* handler's network call, a credential probe) leaves a record in `tasks`  *)
(* and a later action resumes it.                                          *)
(***************************************************************************)
EXTENDS Integers, Sequences, FiniteSets, TLC

\* ------------------------------------------------------------------ bounds
\* Number of distinct values uuid4() can return in a run.
MaxIds == 2
\* Number of coroutines suspended at an await at the same time.
MaxTasks == 2
\* Number of JiraProvider objects constructed in a run.
MaxProviderObjs == 1
\* Number of JiraProvider objects constructed in a run of RegistrySpec.
MaxRegistryObjs == 2

\* --------------------------------------------------------------- constants
\* request.headers.get("mcp-session-id") when the header is absent.
NoHeader == 0
\* Python None / JSON null (a missing "id").
None == 0

Ids == 1..MaxIds
ProvObjs == 1..(IF MaxRegistryObjs > MaxProviderObjs THEN MaxRegistryObjs
                ELSE MaxProviderObjs)

\* The "id" members clients send: none at all, or a number.
ReqIds == {None, 7}

Methods == {"initialize", "initialized", "tools/list", "tools/call", "ping",
            "resources/list"}

\* JiraProvider's class attributes.
JiraName == "jira"
JiraRequiredRole == "gl-admin"

\* The local names JiraProvider.register_tools registers, in order.
JiraLocalTools == <<"search_issues", "get_issue", "create_issue",
                    "add_comment", "transition_issue">>

\* f"{self.name}_{name}": a name is the sequence of its parts.
FullName(prov, local) == <<prov, "_", local>>

\* The tool names clients ask for: one JiraProvider registers, one nobody does.
CallNames == {FullName(JiraName, "search_issues"), <<"no_such_tool">>}

\* The role lists a role extractor returns.
RoleLists == {<<>>, <<JiraRequiredRole>>}

\* initialize_all's user_roles argument: None, or a list.
RolesArgs == {[given |-> FALSE, roles |-> <<>>]}
             \cup {[given |-> TRUE, roles |-> r] : r \in RoleLists}

\* ------------------------------------------------------------ request bodies
\* kind "bad": request.json() raises; "nondict": JSON that is no object;
\* "dict": a JSON object.  params.kind "dict"/"nondict" likewise; arguments
\* "ok" fit the handler's signature, "bad" do not (handler(**arguments)
\* raises TypeError before it awaits anything).
NoParams == [kind |-> "dict", name |-> <<>>, arguments |-> "ok"]
BadBody == [kind |-> "bad", method |-> "", id |-> None, params |-> NoParams]
NonDictBody == [kind |-> "nondict", method |-> "", id |-> None, params |-> NoParams]
CallParams == {[kind |-> "nondict", name |-> <<>>, arguments |-> "ok"]}
              \cup {[kind |-> "dict", name |-> n, arguments |-> a] :
                      n \in CallNames, a \in {"ok", "bad"}}
DictBodies == {[kind |-> "dict", method |-> m, id |-> i, params |-> NoParams] :
                  m \in Methods \ {"tools/call"}, i \in ReqIds}
              \cup {[kind |-> "dict", method |-> "tools/call", id |-> i, params |-> p] :
                      i \in ReqIds, p \in CallParams}
ParsedBodies == {NonDictBody} \cup DictBodies
Headers == {NoHeader} \cup Ids

\* ----------------------------------------------------------------- state
VARIABLES
    sessions,    \* _sessions: session id -> session dict
    minted,      \* the values uuid4() has returned so far
    created,     \* history: ids ever inserted into _sessions
    deleted,     \* history: ids ever removed from _sessions
    extractor,   \* whether get_mcp_router was given a user_roles_extractor
    tasks,       \* coroutines suspended at an await
    ev,          \* the step just taken: request, response, frames
    nobjs,       \* JiraProvider objects constructed so far
    providers,   \* ProviderRegistry._providers["jira"]: an object, or 0
    loaded,      \* _credentials_loaded of each provider object
    valid,       \* _credentials_valid of each provider object
    loadCalls,   \* history: load_credentials calls per provider object
    regCalls,    \* history: register_tools calls per provider object
    loadEnded,   \* history: how each object's load_credentials call ended
    tools,       \* MCPServerManager._tools
    handlers     \* MCPServerManager._tool_handlers: name -> bound provider

vars == <<sessions, minted, created, deleted, extractor, tasks, ev, nobjs,
          providers, loaded, valid, loadCalls, regCalls, loadEnded, tools,
          handlers>>

sessionVars == <<sessions, minted, created, deleted>>
providerVars == <<nobjs, providers, loaded, valid, loadCalls, regCalls,
                  loadEnded>>
registryVars == <<tools, handlers>>

\* --------------------------------------------------------------- responses
NoResult == [type |-> "none"]
NoBodyEnv == [t |-> "none", id |-> None, code |-> 0, message |-> <<>>, result |-> NoResult]

\* {"jsonrpc": "2.0", "error": {"code": c, "message": m}, "id": i}
ErrorEnvelope(c, m, i) ==
    [t |-> "error", id |-> i, code |-> c, message |-> m, result |-> NoResult]

\* {"jsonrpc": "2.0", "id": i, "result": r}
ResultEnvelope(i, r) ==
    [t |-> "result", id |-> i, code |-> 0, message |-> <<>>, result |-> r]

Response(status, hdr, body) == [status |-> status, hdr |-> hdr, body |-> body]
NoResponse == Response(0, NoHeader, NoBodyEnv)

\* The handler returned no Response: the exception left mcp_post.
RaisedOut == Response(0, NoHeader,
                 [t |-> "raised", id |-> None, code |-> 0, message |-> <<>>,
                  result |-> NoResult])

NoInfo == [x |-> 0]

\* The step just taken.  op: the operation; step: "respond" (it arrived and
\* was answered in this step), "suspend" (it arrived and now waits at an
\* await), "resume" (it was resumed and answered in this step); hdr, body:
\* the request; resp: the response; exc: the exception raised while the
\* request was handled ("" if none); texc: the exception the tool handler
\* raised ("" if none); sid: the id of the session the request ran on.
Event(op, step, hdr, body, resp, exc, texc, sid, info) ==
    [op |-> op, step |-> step, hdr |-> hdr, body |-> body, resp |-> resp,
     exc |-> exc, texc |-> texc, sid |-> sid, info |-> info]

NoEvent == Event("none", "none", NoHeader, BadBody, NoResponse, "", "",
                 NoHeader, NoInfo)

PostEvent(step, hdr, body, resp, exc, texc, sid) ==
    Event("POST", step, hdr, body, resp, exc, texc, sid, NoInfo)

\* --------------------------------------------------------- suspended tasks
\* k: "extract" (mcp_post awaiting user_roles_extractor, sid already minted),
\* "call" (mcp_post awaiting a tool handler on session sid; p is the provider
\* object the handler is bound to), "load" (initialize_all awaiting
\* load_credentials of provider object p), "generator" (event_generator of a
\* StreamingResponse, not yet started), "stream" (event_generator waiting in
\* queue.get on the queue of session sid).
Task(k, hdr, sid, body, p) ==
    [k |-> k, hdr |-> hdr, sid |-> sid, body |-> body, p |-> p]

CanSuspend == Cardinality(tasks) < MaxTasks

\* ------------------------------------------------------------ tool registry
Tool(prov, local) ==
    [name |-> FullName(prov, local), description |-> <<"description", local>>,
     inputSchema |-> <<"schema", local>>]

ToolNames(ts) == {ts[i].name : i \in 1..Len(ts)}

\* MCPServerManager.register_tool applied to the pair (_tools, _tool_handlers).
RegisterTool(reg, tool, handler) ==
    [tools |-> Append(reg.tools, tool),
     handlers |-> [n \in DOMAIN reg.handlers \cup {tool.name} |->
                      IF n = tool.name THEN handler ELSE reg.handlers[n]]]

\* JiraProvider.register_tools of object p: BaseProvider.register_tool for
\* each local name in turn, the handler a method bound to p.
RECURSIVE RegisterTools(_, _, _)
RegisterTools(reg, p, locals) ==
    IF locals = <<>> THEN reg
    ELSE RegisterTools(RegisterTool(reg, Tool(JiraName, Head(locals)), p),
                       p, Tail(locals))

\* Mutant of ListTools: the newest registration is listed first.
ListToolsNewestFirst == [i \in 1..Len(tools) |-> tools[Len(tools) + 1 - i]]

\* The list_tools closure of create_server.
ListTools == tools

TextContent(pre, rest) == [type |-> "text", pre |-> pre, rest |-> rest]

\* Mutant of CallTool: the handler is looked up inside the try block with no
\* membership test, so an unknown name ends as a caught KeyError.
CallToolUnknownAsError(name, arguments) ==
    IF name \notin DOMAIN handlers
    THEN [k |-> "return", texc |-> "",
          content |-> <<TextContent("Error: ", name)>>]
    ELSE IF arguments # "ok"
    THEN [k |-> "return", texc |-> "TypeError",
          content |-> <<TextContent("Error: ", <<"TypeError">>)>>]
    ELSE [k |-> "await", texc |-> "", content |-> <<>>]

\* The call_tool closure of create_server up to the handler's first await:
\* an unknown name and a call the handler's signature rejects are answered
\* at once, any other call awaits the handler.
CallTool(name, arguments) ==
    IF name \notin DOMAIN handlers
    THEN [k |-> "return", texc |-> "",
          content |-> <<TextContent("Unknown tool: ", name)>>]
    ELSE IF arguments # "ok"
    THEN [k |-> "return", texc |-> "TypeError",
          content |-> <<TextContent("Error: ", <<"TypeError">>)>>]
    ELSE [k |-> "await", texc |-> "", content |-> <<>>]

\* call_tool after the awaited handler returned a str.
HandlerReturned(text) == <<TextContent("", <<text>>)>>

\* call_tool's `except Exception as e` after the awaited handler raised e.
HandlerRaised(e) == <<TextContent("Error: ", <<e>>)>>

\* --------------------------------------------------------------- dispatcher
\* Mutant of IsInitializeRequest: any object with a method counts.
IsInitializeRequestAnyMethod(body) == body.kind = "dict"

\* _is_initialize_request
IsInitializeRequest(body) ==
    IF body.kind = "dict" THEN body.method = "initialize" ELSE FALSE

\* Mutant of SessionKnown: any header that is present is taken as known.
SessionKnownIfPresent(hdr) == hdr # NoHeader

\* Mutant of SessionKnown: the lookup never finds the session.
SessionKnownNever(hdr) == FALSE

\* `session_id and session_id in _sessions`
SessionKnown(hdr) == hdr # NoHeader /\ hdr \in DOMAIN sessions

\* Mutant of BodyId: error envelopes are built with a null id.
BodyIdNull(body) == None

\* body.get("id") if isinstance(body, dict) else None
BodyId(body) == IF body.kind = "dict" THEN body.id ELSE None

InitializeResult ==
    [type |-> "init", protocolVersion |-> "2024-11-05",
     serverInfo |-> [name |-> "gl-mcp-python", version |-> "0.1.0"],
     capabilities |-> [tools |-> [listChanged |-> FALSE]]]

ToolsResult(ts) ==
    [type |-> "tools",
     tools |-> [i \in 1..Len(ts) |->
                  [name |-> ts[i].name, description |-> ts[i].description,
                   inputSchema |-> ts[i].inputSchema]]]

ContentResult(content) ==
    [type |-> "content",
     content |-> [i \in 1..Len(content) |->
                    [type |-> content[i].type, pre |-> content[i].pre,
                     rest |-> content[i].rest]]]

Returned(env) == [k |-> "return", env |-> env, exc |-> "", texc |-> ""]
Raised(e) == [k |-> "raise", env |-> NoBodyEnv, exc |-> e, texc |-> ""]
Awaiting == [k |-> "await", env |-> NoBodyEnv, exc |-> "", texc |-> ""]
ReturnedFromTool(env, texc) ==
    [k |-> "return", env |-> env, exc |-> "", texc |-> texc]

\* _handle_message's tools/call branch once call_tool came back with content.
CallToolDone(id, content, texc) ==
    ReturnedFromTool(ResultEnvelope(id, ContentResult(content)), texc)

\* Mutant of CallToolFailed: the handler's exception leaves call_tool.
CallToolFailedPropagates(id, e) == Raised(e)

\* _handle_message's tools/call branch when the awaited handler raised e:
\* call_tool catches it and returns the error content.
CallToolFailed(id, e) == CallToolDone(id, HandlerRaised(e), e)

\* Mutant of MethodNotFound: the invalid-request code is used.
MethodNotFoundAsInvalidRequest(method, id) ==
    Returned(ErrorEnvelope(-32600, <<"Method not found: ", method>>, id))

\* _handle_message's else branch.
MethodNotFound(method, id) ==
    Returned(ErrorEnvelope(-32601, <<"Method not found: ", method>>, id))

\* _handle_message up to its first await that suspends.  A body that is no
\* dict has no .get; neither have params that are no dict.
HandleMessage(body) ==
    IF body.kind # "dict" THEN Raised("AttributeError")
    ELSE CASE body.method = "initialize" ->
                Returned(ResultEnvelope(body.id, InitializeResult))
           [] body.method = "initialized" -> Returned(NoBodyEnv)
           [] body.method = "tools/list" ->
                Returned(ResultEnvelope(body.id, ToolsResult(ListTools)))
           [] body.method = "tools/call" ->
                IF body.params.kind # "dict" THEN Raised("AttributeError")
                ELSE LET c == CallTool(body.params.name, body.params.arguments)
                     IN  IF c.k = "await" THEN Awaiting
                         ELSE CallToolDone(body.id, c.content, c.texc)
           [] body.method = "ping" ->
                Returned(ResultEnvelope(body.id, [type |-> "empty"]))
           [] OTHER -> MethodNotFound(body.method, body.id)

ParseErrorResponse ==
    Response(400, NoHeader, ErrorEnvelope(-32700, <<"Parse error">>, None))

InvalidSessionResponse(body) ==
    Response(400, NoHeader,
             ErrorEnvelope(-32600, <<"Invalid session">>, BodyId(body)))

\* Mutant of PostResponse: the 202 answer is built without the headers.
PostResponseBare202(sid, body, out) ==
    IF out.k = "raise"
    THEN Response(500, NoHeader, ErrorEnvelope(-32603, <<out.exc>>, BodyId(body)))
    ELSE IF out.env.t = "none" THEN Response(202, NoHeader, NoBodyEnv)
    ELSE Response(200, sid, out.env)

\* mcp_post's try block after _handle_message came back with `out`.
PostResponse(sid, body, out) ==
    IF out.k = "raise"
    THEN Response(500, NoHeader, ErrorEnvelope(-32603, <<out.exc>>, BodyId(body)))
    ELSE IF out.env.t = "none" THEN Response(202, sid, NoBodyEnv)
    ELSE Response(200, sid, out.env)

\* Mutant of NewSession: the queue is created with a first message in it.
NewSessionWithGreeting(sid, roles) ==
    [server |-> sid, user_roles |-> roles, message_queue |-> <<"greeting">>]

\* The session dict mcp_post builds; the Server is named by the session's id.
NewSession(sid, roles) ==
    [server |-> sid, user_roles |-> roles, message_queue |-> <<>>]

\* Mutant of InsertSession: the store is rebuilt around the new session.
InsertSessionReplaces(store, sid, session) == [s \in {sid} |-> session]

\* _sessions[session_id] = session
InsertSession(store, sid, session) ==
    [s \in DOMAIN store \cup {sid} |-> IF s = sid THEN session ELSE store[s]]

\* Mutant of RemoveSession: the whole store is cleared.
RemoveSessionClears(store, sid) == <<>>

\* Mutant of RemoveSession: the entry is removed from a copy of the store.
RemoveSessionFromCopy(store, sid) == store

\* del _sessions[session_id]
RemoveSession(store, sid) == [s \in DOMAIN store \ {sid} |-> store[s]]

\* Mutant of FreshIds: an id may come back once it is no longer in use.
FreshIdsReused == Ids \ (DOMAIN sessions \cup {t.sid : t \in tasks})

\* Mutant of FreshIds: an id is taken as free when it is not in the store.
FreshIdsNotStored == Ids \ DOMAIN sessions

\* str(uuid4()): a value never returned before.
FreshIds == Ids \ minted


\* x in lst, for a Python list
InList(x, lst) == \E i \in 1..Len(lst) : lst[i] = x

\* ------------------------------------------------------------------- Init
\* The module globals after import: no session, no provider, no tool.
Init ==
    /\ sessions = <<>>
    /\ minted = {}
    /\ created = {}
    /\ deleted = {}
    /\ extractor \in BOOLEAN
    /\ tasks = {}
    /\ ev = NoEvent
    /\ nobjs = 0
    /\ providers = 0
    /\ loaded = [p \in ProvObjs |-> FALSE]
    /\ valid = [p \in ProvObjs |-> FALSE]
    /\ loadCalls = [p \in ProvObjs |-> 0]
    /\ regCalls = [p \in ProvObjs |-> 0]
    /\ loadEnded = [p \in ProvObjs |-> "no"]
    /\ tools = <<>>
    /\ handlers = <<>>

\* Every handler starts once the previous response has been handed over.
Idle == ev = NoEvent

\* The framework sends the response (or frame) of the step just taken.
Deliver ==
    /\ ev # NoEvent
    /\ ev' = NoEvent
    /\ UNCHANGED <<sessionVars, extractor, tasks, providerVars, registryVars>>

\* -------------------------------------------------------------- POST /mcp
\* request.json() raises.
McpPostParseError(hdr) ==
    /\ Idle
    /\ ev' = PostEvent("respond", hdr, BadBody, ParseErrorResponse, "", "",
                       NoHeader)
    /\ UNCHANGED <<sessionVars, extractor, tasks, providerVars, registryVars>>

\* No session and no initialize request.
McpPostInvalidSession(hdr, body) ==
    /\ Idle
    /\ ~SessionKnown(hdr)
    /\ ~IsInitializeRequest(body)
    /\ ev' = PostEvent("respond", hdr, body, InvalidSessionResponse(body), "",
                       "", NoHeader)
    /\ UNCHANGED <<sessionVars, extractor, tasks, providerVars, registryVars>>

\* Lines 61-95: the session is built and stored, the message handled.
CreateSession(step, hdr, sid, roles, body) ==
    LET out == HandleMessage(body)
    IN  /\ sessions' = InsertSession(sessions, sid, NewSession(sid, roles))
        /\ created' = created \cup {sid}
        /\ ev' = PostEvent(step, hdr, body, PostResponse(sid, body, out),
                           out.exc, out.texc, sid)

\* initialize with no known session, router without a role extractor.
McpPostNewSession(hdr, body) ==
    /\ Idle
    /\ ~extractor
    /\ ~SessionKnown(hdr)
    /\ IsInitializeRequest(body)
    /\ \E sid \in FreshIds :
          /\ minted' = minted \cup {sid}
          /\ CreateSession("respond", hdr, sid, <<>>, body)
    /\ UNCHANGED <<deleted, extractor, tasks, providerVars, registryVars>>

\* initialize with no known session, router with a role extractor: the id is
\* minted, then mcp_post awaits the extractor.
McpPostNewSessionAwait(hdr, body) ==
    /\ Idle
    /\ extractor
    /\ ~SessionKnown(hdr)
    /\ IsInitializeRequest(body)
    /\ CanSuspend
    /\ \E sid \in FreshIds :
          /\ minted' = minted \cup {sid}
          /\ tasks' = tasks \cup {Task("extract", hdr, sid, body, 0)}
          /\ ev' = PostEvent("suspend", hdr, body, NoResponse, "", "", NoHeader)
    /\ UNCHANGED <<sessions, created, deleted, extractor, providerVars,
                   registryVars>>

\* The extractor returns a role list.
ExtractorReturn(t, roles) ==
    /\ Idle
    /\ t \in tasks /\ t.k = "extract"
    /\ tasks' = tasks \ {t}
    /\ CreateSession("resume", t.hdr, t.sid, roles, t.body)
    /\ UNCHANGED <<minted, deleted, extractor, providerVars, registryVars>>

\* The extractor raises: line 59 is outside mcp_post's try block.
ExtractorRaise(t) ==
    /\ Idle
    /\ t \in tasks /\ t.k = "extract"
    /\ tasks' = tasks \ {t}
    /\ ev' = PostEvent("resume", t.hdr, t.body, RaisedOut, "ExtractorError",
                       "", NoHeader)
    /\ UNCHANGED <<sessionVars, extractor, providerVars, registryVars>>

\* A parsed body on a known session.
McpPost(hdr, body) ==
    /\ Idle
    /\ SessionKnown(hdr)
    /\ LET out == HandleMessage(body)
       IN  IF out.k = "await"
           THEN LET t == Task("call", hdr, hdr, body, handlers[body.params.name])
                IN  /\ CanSuspend
                    /\ t \notin tasks
                    /\ tasks' = tasks \cup {t}
                    /\ ev' = PostEvent("suspend", hdr, body, NoResponse, "", "",
                                       hdr)
           ELSE /\ ev' = PostEvent("respond", hdr, body,
                                   PostResponse(hdr, body, out), out.exc,
                                   out.texc, hdr)
                /\ UNCHANGED tasks
    /\ UNCHANGED <<sessionVars, extractor, providerVars, registryVars>>

\* The awaited tool handler returns a str.
HandlerReturn(t) ==
    /\ Idle
    /\ t \in tasks /\ t.k = "call"
    /\ tasks' = tasks \ {t}
    /\ LET out == CallToolDone(t.body.id, HandlerReturned("result"), "")
       IN  ev' = PostEvent("resume", t.hdr, t.body,
                           PostResponse(t.sid, t.body, out), out.exc, out.texc,
                           t.sid)
    /\ UNCHANGED <<sessionVars, extractor, providerVars, registryVars>>

\* The awaited tool handler raises.
HandlerRaise(t) ==
    /\ Idle
    /\ t \in tasks /\ t.k = "call"
    /\ tasks' = tasks \ {t}
    /\ LET out == CallToolFailed(t.body.id, "HTTPStatusError")
       IN  ev' = PostEvent("resume", t.hdr, t.body,
                           PostResponse(t.sid, t.body, out), out.exc,
                           "HTTPStatusError", t.sid)
    /\ UNCHANGED <<sessionVars, extractor, providerVars, registryVars>>

\* ------------------------------------------------------------ DELETE /mcp
\* Mutant of McpDelete: the requests suspended on the session are cancelled.
McpDeleteCancelsRequests(hdr) ==
    /\ Idle
    /\ SessionKnown(hdr)
    /\ sessions' = RemoveSession(sessions, hdr)
    /\ deleted' = deleted \cup {hdr}
    /\ tasks' = {t \in tasks : ~(t.k = "call" /\ t.sid = hdr)}
    /\ ev' = Event("DELETE", "respond", hdr, BadBody,
                   Response(200, NoHeader, NoBodyEnv), "", "", hdr, NoInfo)
    /\ UNCHANGED <<minted, created, extractor, providerVars, registryVars>>

McpDelete(hdr) ==
    /\ Idle
    /\ SessionKnown(hdr)
    /\ sessions' = RemoveSession(sessions, hdr)
    /\ deleted' = deleted \cup {hdr}
    /\ ev' = Event("DELETE", "respond", hdr, BadBody,
                   Response(200, NoHeader, NoBodyEnv), "", "", hdr, NoInfo)
    /\ UNCHANGED <<minted, created, extractor, tasks, providerVars,
                   registryVars>>

McpDeleteUnknown(hdr) ==
    /\ Idle
    /\ ~SessionKnown(hdr)
    /\ ev' = Event("DELETE", "respond", hdr, BadBody,
                   Response(400, NoHeader, NoBodyEnv), "", "", NoHeader, NoInfo)
    /\ UNCHANGED <<sessionVars, extractor, tasks, providerVars, registryVars>>


\* --------------------------------------------------------------- GET /mcp
TextBody(m) ==
    [t |-> "text", id |-> None, code |-> 0, message |-> <<m>>, result |-> NoResult]

\* Missing or unknown session id.
McpGetInvalidSession(hdr, accept) ==
    /\ Idle
    /\ ~SessionKnown(hdr)
    /\ ev' = Event("GET", "respond", hdr, BadBody,
                   Response(400, NoHeader, TextBody("Invalid or missing session ID")),
                   "", "", NoHeader, [accept |-> accept])
    /\ UNCHANGED <<sessionVars, extractor, tasks, providerVars, registryVars>>

\* "text/event-stream" not in the Accept header.
McpGetNotAccepted(hdr) ==
    /\ Idle
    /\ SessionKnown(hdr)
    /\ ev' = Event("GET", "respond", hdr, BadBody,
                   Response(405, NoHeader, TextBody("SSE not accepted")),
                   "", "", hdr, [accept |-> FALSE])
    /\ UNCHANGED <<sessionVars, extractor, tasks, providerVars, registryVars>>

\* The StreamingResponse is returned; its generator has not run yet.
McpGet(hdr) ==
    /\ Idle
    /\ SessionKnown(hdr)
    /\ CanSuspend
    /\ Task("generator", hdr, hdr, BadBody, 0) \notin tasks
    /\ tasks' = tasks \cup {Task("generator", hdr, hdr, BadBody, 0)}
    /\ ev' = Event("GET", "respond", hdr, BadBody,
                   Response(200, hdr, [TextBody("text/event-stream") EXCEPT !.t = "stream"]),
                   "", "", hdr, [accept |-> TRUE])
    /\ UNCHANGED <<sessionVars, extractor, providerVars, registryVars>>

\* event_generator starts: _sessions.get(session_id), then the first
\* queue.get; it returns at once when the session is gone.
GeneratorStart(t) ==
    /\ Idle
    /\ t \in tasks /\ t.k = "generator"
    /\ IF t.sid \in DOMAIN sessions
       THEN /\ Task("stream", t.hdr, t.sid, BadBody, 0) \notin tasks
            /\ tasks' = (tasks \ {t}) \cup {Task("stream", t.hdr, t.sid, BadBody, 0)}
            /\ ev' = Event("SSE", "start", t.hdr, BadBody, NoResponse, "", "",
                           t.sid, NoInfo)
       ELSE /\ tasks' = tasks \ {t}
            /\ ev' = Event("SSE", "end", t.hdr, BadBody, NoResponse, "", "",
                           t.sid, NoInfo)
    /\ UNCHANGED <<sessionVars, extractor, providerVars, registryVars>>

\* wait_for(queue.get(), timeout=30) times out: a keep-alive frame, and the
\* loop waits again.
StreamKeepAlive(t) ==
    /\ Idle
    /\ t \in tasks /\ t.k = "stream"
    /\ ev' = Event("SSE", "frame", t.hdr, BadBody,
                   Response(200, t.hdr, [TextBody(": keep-alive") EXCEPT !.t = "frame"]),
                   "", "", t.sid, NoInfo)
    /\ UNCHANGED <<sessionVars, extractor, tasks, providerVars, registryVars>>

\* The peer disconnects: CancelledError at the await ends the generator.
StreamCancel(t) ==
    /\ Idle
    /\ t \in tasks /\ t.k \in {"generator", "stream"}
    /\ tasks' = tasks \ {t}
    /\ ev' = Event("SSE", "cancel", t.hdr, BadBody, NoResponse, "", "", t.sid,
                   NoInfo)
    /\ UNCHANGED <<sessionVars, extractor, providerVars, registryVars>>

\* ------------------------------------------------------------- providers
\* register_all_providers: registry.register(JiraProvider()); a run
\* constructs at most `limit` provider objects.
RegisterProvider(limit) ==
    /\ Idle
    /\ nobjs < limit
    /\ nobjs' = nobjs + 1
    /\ providers' = nobjs + 1
    /\ ev' = Event("register_all_providers", "respond", NoHeader, BadBody,
                   NoResponse, "", "", NoHeader, [p |-> nobjs + 1])
    /\ UNCHANGED <<sessionVars, extractor, tasks, loaded, valid, loadCalls,
                   regCalls, loadEnded, registryVars>>

RegisterAllProviders == RegisterProvider(MaxProviderObjs)

\* The role gate of initialize_all and get_available_providers.
RoleGateSkips(ra) ==
    JiraRequiredRole # "" /\ ra.given /\ ~InList(JiraRequiredRole, ra.roles)

\* Mutant of NeedsLoad: the cached result is used only when it is valid.
NeedsLoadUnlessValid(p) == ~valid[p]

\* Mutant of NeedsLoad: the cached result is never consulted.
NeedsLoadAlways(p) == TRUE

\* initialize(): `if self._credentials_loaded: return self._credentials_valid`
NeedsLoad(p) == ~loaded[p]

InitAllEvent(step, ra, p, ret) ==
    Event("initialize_all", step, NoHeader, BadBody, NoResponse, "", "",
          NoHeader, [roles |-> ra, p |-> p, ret |-> ret])

\* initialize_all on an empty registry, on a provider the role gate skips,
\* or on a provider whose initialize() returns the cached validity.
\* ret: the returned dict, as the set of its items.
InitializeAll(ra) ==
    /\ Idle
    /\ \/ providers = 0 /\ ev' = InitAllEvent("respond", ra, 0, {})
       \/ /\ providers # 0
          /\ RoleGateSkips(ra)
          /\ ev' = InitAllEvent("respond", ra, providers, {<<JiraName, FALSE>>})
       \/ /\ providers # 0
          /\ ~RoleGateSkips(ra)
          /\ ~NeedsLoad(providers)
          /\ ev' = InitAllEvent("respond", ra, providers,
                                {<<JiraName, valid[providers]>>})
    /\ UNCHANGED <<sessionVars, extractor, tasks, providerVars, registryVars>>

\* Mutant of InitializeAllAwait: _credentials_loaded is not set before
\* load_credentials is awaited.
InitializeAllAwaitFlagNotSet(ra) ==
    /\ Idle
    /\ providers # 0
    /\ ~RoleGateSkips(ra)
    /\ NeedsLoad(providers)
    /\ CanSuspend
    /\ loadCalls[providers] < 2
    /\ loadCalls' = [loadCalls EXCEPT ![providers] = @ + 1]
    /\ tasks' = tasks \cup {Task("load", NoHeader, NoHeader, BadBody, providers)}
    /\ ev' = InitAllEvent("suspend", ra, providers, {})
    /\ UNCHANGED <<sessionVars, extractor, nobjs, providers, loaded, valid,
                   regCalls, loadEnded, registryVars>>

\* initialize_all reaches initialize() of a provider not loaded yet: the
\* flag is set and load_credentials awaited.
InitializeAllAwait(ra) ==
    /\ Idle
    /\ providers # 0
    /\ ~RoleGateSkips(ra)
    /\ NeedsLoad(providers)
    /\ CanSuspend
    /\ loaded' = [loaded EXCEPT ![providers] = TRUE]
    /\ loadCalls' = [loadCalls EXCEPT ![providers] = @ + 1]
    /\ tasks' = tasks \cup {Task("load", NoHeader, NoHeader, BadBody, providers)}
    /\ ev' = InitAllEvent("suspend", ra, providers, {})
    /\ UNCHANGED <<sessionVars, extractor, nobjs, providers, valid, regCalls,
                   loadEnded, registryVars>>

\* load_credentials returns ok; initialize() stores it and registers the
\* tools if it is True; initialize_all returns.
LoadCredentialsReturn(t, ok) ==
    /\ Idle
    /\ t \in tasks /\ t.k = "load"
    /\ tasks' = tasks \ {t}
    /\ valid' = [valid EXCEPT ![t.p] = ok]
    /\ loadEnded' = [loadEnded EXCEPT ![t.p] = IF ok THEN "True" ELSE "False"]
    /\ IF ok
       THEN LET reg == RegisterTools([tools |-> tools, handlers |-> handlers],
                                     t.p, JiraLocalTools)
            IN  /\ tools' = reg.tools
                /\ handlers' = reg.handlers
                /\ regCalls' = [regCalls EXCEPT ![t.p] = @ + 1]
       ELSE UNCHANGED <<tools, handlers, regCalls>>
    /\ ev' = InitAllEvent("resume", [given |-> FALSE, roles |-> <<>>], t.p,
                          {<<JiraName, ok>>})
    /\ UNCHANGED <<sessionVars, extractor, nobjs, providers, loaded, loadCalls>>

\* load_credentials raises: nothing in initialize() or initialize_all
\* catches it.
LoadCredentialsRaise(t) ==
    /\ Idle
    /\ t \in tasks /\ t.k = "load"
    /\ tasks' = tasks \ {t}
    /\ ev' = [InitAllEvent("resume", [given |-> FALSE, roles |-> <<>>], t.p, {})
                EXCEPT !.exc = "LoadError"]
    /\ loadEnded' = [loadEnded EXCEPT ![t.p] = "raised"]
    /\ UNCHANGED <<sessionVars, extractor, nobjs, providers, loaded, valid,
                   loadCalls, regCalls, registryVars>>

\* Mutant of CheckAllCredentials: availability is read from the loaded flag.
CheckAllCredentialsFromLoaded ==
    IF providers = 0 THEN {} ELSE {<<JiraName, loaded[providers]>>}

\* check_all_credentials(): {name: provider.is_available}, as the set of its
\* items.
CheckAllCredentials ==
    IF providers = 0 THEN {} ELSE {<<JiraName, valid[providers]>>}

\* get_session_count(): len(_sessions)
GetSessionCount == Cardinality(DOMAIN sessions)

\* GET /health: check_all_credentials() and get_session_count().
HealthCheck ==
    /\ Idle
    /\ ev' = Event("health", "respond", NoHeader, BadBody, NoResponse, "", "",
                   NoHeader,
                   [providers |-> CheckAllCredentials,
                    sessions |-> GetSessionCount])
    /\ UNCHANGED <<sessionVars, extractor, tasks, providerVars, registryVars>>

\* ------------------------------------------------------------------- Next
Next ==
    \/ Deliver
    \/ \E hdr \in Headers : McpPostParseError(hdr)
    \/ \E hdr \in Headers, body \in ParsedBodies : McpPostInvalidSession(hdr, body)
    \/ \E hdr \in Headers, body \in ParsedBodies : McpPostNewSession(hdr, body)
    \/ \E hdr \in Headers, body \in ParsedBodies : McpPostNewSessionAwait(hdr, body)
    \/ \E t \in tasks, roles \in RoleLists : ExtractorReturn(t, roles)
    \/ \E t \in tasks : ExtractorRaise(t)
    \/ \E hdr \in Headers, body \in ParsedBodies : McpPost(hdr, body)
    \/ \E t \in tasks : HandlerReturn(t)
    \/ \E t \in tasks : HandlerRaise(t)
    \/ \E hdr \in Headers : McpDelete(hdr)
    \/ \E hdr \in Headers : McpDeleteUnknown(hdr)
    \/ \E hdr \in Headers, accept \in BOOLEAN : McpGetInvalidSession(hdr, accept)
    \/ \E hdr \in Headers : McpGetNotAccepted(hdr)
    \/ \E hdr \in Headers : McpGet(hdr)
    \/ \E t \in tasks : GeneratorStart(t)
    \/ \E t \in tasks : StreamKeepAlive(t)
    \/ \E t \in tasks : StreamCancel(t)
    \/ RegisterAllProviders
    \/ \E ra \in RolesArgs : InitializeAll(ra)
    \/ \E ra \in RolesArgs : InitializeAllAwait(ra)
    \/ \E t \in tasks, ok \in BOOLEAN : LoadCredentialsReturn(t, ok)
    \/ \E t \in tasks : LoadCredentialsRaise(t)
    \/ HealthCheck

Spec == Init /\ [][Next]_vars

\* ------------------------------------------------------------ RegistrySpec
\* The provider layer and the tool registry of a process that runs its
\* startup (register_all_providers, initialize_providers) more than once,
\* seen through tools/list and tools/call on the router main.py builds (no
\* role extractor).
RegistryInit == Init /\ extractor = FALSE

RegistryRegisterAllProviders == RegisterProvider(MaxRegistryObjs)

RegistryNext ==
    \/ Deliver
    \/ RegistryRegisterAllProviders
    \/ \E ra \in RolesArgs : InitializeAll(ra)
    \/ \E ra \in RolesArgs : InitializeAllAwait(ra)
    \/ \E t \in tasks, ok \in BOOLEAN : LoadCredentialsReturn(t, ok)
    \/ \E t \in tasks : LoadCredentialsRaise(t)
    \/ \E hdr \in Headers, body \in ParsedBodies : McpPostNewSession(hdr, body)
    \/ \E hdr \in Headers, body \in ParsedBodies : McpPost(hdr, body)
    \/ \E t \in tasks : HandlerReturn(t)
    \/ \E t \in tasks : HandlerRaise(t)

RegistrySpec == RegistryInit /\ [][RegistryNext]_vars


\* =================================================================== claims
\* The request of the step just taken is a JSON object with this method.
EvMethod(e, m) == e.body.kind = "dict" /\ e.body.method = m

\* The response of the step just taken is a JSON-RPC error with this status
\* and code.
EvError(e, status, code) ==
    /\ e.resp.status = status
    /\ e.resp.body.t = "error"
    /\ e.resp.body.code = code

\* The step just taken is the arrival of a POST (answered or suspended).
EvPostArrival(e) == e.op = "POST" /\ e.step \in {"respond", "suspend"}

\* C1: a POST with any method other than initialize whose session header is
\* missing or names no stored session is answered 400 with code -32600 in
\* the step in which it arrives; the session store, the minted ids, the
\* suspended tasks and the tool registry are the same before and after, and
\* no tool handler ran.
C1_InvalidSessionRejected ==
    [][ ( /\ EvPostArrival(ev')
          /\ ev'.body.kind = "dict"
          /\ ev'.body.method # "initialize"
          /\ (ev'.hdr = NoHeader \/ ev'.hdr \notin DOMAIN sessions) )
        => ( /\ ev'.step = "respond"
             /\ EvError(ev', 400, -32600)
             /\ ev'.texc = ""
             /\ sessions' = sessions
             /\ minted' = minted
             /\ tasks' = tasks
             /\ tools' = tools
             /\ handlers' = handlers ) ]_vars

\* C1 witness: tools/call under the id of a deleted session was just rejected.
C1_Witness ==
    /\ ev.op = "POST"
    /\ EvMethod(ev, "tools/call")
    /\ ev.hdr \in deleted
    /\ EvError(ev, 400, -32600)

\* What a step may do to the session store: an insert only by a POST
\* initialize that found no stored session when it arrived (in this step, or
\* earlier if it waited for the role extractor), under the id that POST
\* minted; a removal only by a DELETE naming a stored session.
C2_Step ==
    /\ created' # created =>
          /\ ev'.op = "POST"
          /\ EvMethod(ev', "initialize")
          /\ \/ /\ ev'.step = "respond"
                /\ (ev'.hdr = NoHeader \/ ev'.hdr \notin DOMAIN sessions)
                /\ ev'.sid \notin minted
             \/ /\ ev'.step = "resume"
                /\ \E t \in tasks \ tasks' : t.k = "extract" /\ t.sid = ev'.sid
          /\ ev'.sid \in minted' \ created
          /\ created' = created \cup {ev'.sid}
    /\ deleted' # deleted =>
          /\ ev'.op = "DELETE"
          /\ ev'.hdr \in DOMAIN sessions
          /\ deleted' = deleted \cup {ev'.hdr}
    /\ DOMAIN sessions' # DOMAIN sessions =>
          (created' # created \/ deleted' # deleted)

\* C2: in every reachable state the ids in the session store are exactly the
\* ids inserted by a POST initialize on the create path minus the ids removed
\* by a DELETE, and no other step inserts or removes a session.
C2_StoreIsCreatedMinusDeleted ==
    /\ [](DOMAIN sessions = created \ deleted)
    /\ [][C2_Step]_vars

\* C2 witness: one session was created and deleted, another is still stored.
C2_Witness ==
    /\ deleted # {}
    /\ DOMAIN sessions # {}
    /\ ev.op = "health"


\* What a step does with the ids DELETE has removed.
C3_Step ==
    /\ \A s \in deleted : s \notin DOMAIN sessions'
    /\ ( /\ EvPostArrival(ev')
         /\ ev'.hdr \in deleted
         /\ ev'.body.kind = "dict"
         /\ ev'.body.method # "initialize" )
       => (ev'.step = "respond" /\ EvError(ev', 400, -32600))
    /\ ( /\ ev'.op = "POST"
         /\ ev'.step \in {"respond", "resume"}
         /\ ev'.hdr \in deleted
         /\ EvMethod(ev', "initialize") )
       => IF ev'.exc = ""
          THEN /\ ev'.resp.status = 200
               /\ ev'.resp.hdr = ev'.sid
               /\ ev'.sid # ev'.hdr
               /\ ev'.sid \notin created \cup deleted
               /\ DOMAIN sessions' = DOMAIN sessions \cup {ev'.sid}
          ELSE sessions' = sessions

EvInitializeNoHeader(e) ==
    /\ e.op = "POST"
    /\ e.step \in {"respond", "resume"}
    /\ e.hdr = NoHeader
    /\ EvMethod(e, "initialize")

C5_ExceptionsBecomeInternalError ==
    (ev.op = "POST" /\ ev.body.kind # "bad" /\ ev.exc # "")
    => /\ EvError(ev, 500, -32603)
       /\ ev.resp.body.id = (IF ev.body.kind = "dict" THEN ev.body.id ELSE None)
       /\ ev.sid # NoHeader => ev.sid \in DOMAIN sessions

\* C6: a tools/call whose handler raises is answered 200 with a result
\* envelope whose single content item has text beginning "Error: ", and the
\* step leaves the session store and the tool registry as they were.
C6_HandlerFailureIsContent ==
    [][ (ev'.op = "POST" /\ ev'.texc # "")
        => /\ ev'.resp.status = 200
           /\ ev'.resp.hdr = ev'.sid
           /\ ev'.resp.body.t = "result"
           /\ ev'.resp.body.id = ev'.body.id
           /\ ev'.resp.body.result.type = "content"
           /\ Len(ev'.resp.body.result.content) = 1
           /\ ev'.resp.body.result.content[1].type = "text"
           /\ ev'.resp.body.result.content[1].pre = "Error: "
           /\ sessions' = sessions
           /\ tools' = tools
           /\ handlers' = handlers ]_vars

\* C6 witness: the awaited handler of a call on a stored session raised.
C6_Witness ==
    /\ ev.op = "POST"
    /\ ev.step = "resume"
    /\ ev.texc = "HTTPStatusError"
    /\ ev.sid \in DOMAIN sessions
    /\ ev.resp.status = 200

JiraToolNames == {FullName(JiraName, JiraLocalTools[i]) : i \in 1..Len(JiraLocalTools)}

\* C7: a tools/call on a stored session naming a tool that is not in the
\* registry is answered 200 with the one content text "Unknown tool: <name>";
\* that is the answer for every JiraProvider tool while no JiraProvider
\* object has valid credentials.
C7_UnknownToolIsContent ==
    [][ ( /\ EvPostArrival(ev')
          /\ ev'.hdr \in DOMAIN sessions
          /\ EvMethod(ev', "tools/call")
          /\ ev'.body.params.kind = "dict"
          /\ \/ ev'.body.params.name \notin DOMAIN handlers
             \/ /\ ev'.body.params.name \in JiraToolNames
                /\ \A p \in ProvObjs : ~valid[p] )
        => /\ ev'.step = "respond"
           /\ ev'.resp.status = 200
           /\ ev'.resp.hdr = ev'.hdr
           /\ ev'.resp.body.t = "result"
           /\ ev'.resp.body.id = ev'.body.id
           /\ ev'.resp.body.result =
                 [type |-> "content",
                  content |-> <<[type |-> "text", pre |-> "Unknown tool: ",
                                 rest |-> ev'.body.params.name]>>] ]_vars

\* C7 witness: a JiraProvider tool was called after the provider's
\* credentials were found invalid.
C7_Witness ==
    /\ ev.op = "POST"
    /\ EvMethod(ev, "tools/call")
    /\ ev.body.params.kind = "dict"
    /\ ev.body.params.name \in JiraToolNames
    /\ \E p \in ProvObjs : loaded[p] /\ ~valid[p]
    /\ tasks = {}
    /\ ev.resp.status = 200
    /\ ev.resp.body.result.type = "content"
    /\ ev.resp.body.result.content[1].pre = "Unknown tool: "

\* C8 as stated: a POST whose body is not a JSON-RPC request object (no
\* JSON at all, or JSON that is no object) is answered 400 with code -32700
\* whatever its session header.
C8_MalformedBodyIsParseError ==
    (ev.op = "POST" /\ ev.step = "respond" /\ ev.body.kind \in {"bad", "nondict"})
    => EvError(ev, 400, -32700)

\* C9 as stated: a message that arrives on a stored session and is answered
\* is answered 202 with no body exactly when it carries no id or its method
\* is initialized.
C9_NotificationsGet202 ==
    [][ ( /\ ev'.op = "POST"
          /\ ev'.step = "respond"
          /\ ev'.hdr \in DOMAIN sessions
          /\ ev'.body.kind = "dict" )
        => ( (ev'.body.id = None \/ ev'.body.method = "initialized")
             <=> (ev'.resp.status = 202 /\ ev'.resp.body.t = "none") ) ]_vars

\* The flags and counters of every provider object agree: load_credentials
\* ran once iff the object is loaded, register_tools once iff it is valid.
C10_Counts ==
    \A p \in ProvObjs :
        /\ loadCalls[p] = (IF loaded[p] THEN 1 ELSE 0)
        /\ regCalls[p] = (IF valid[p] THEN 1 ELSE 0)
        /\ valid[p] => loaded[p]

\* An initialize() call on an object that is already loaded returns the
\* cached validity and changes nothing.
C10_Step ==
    ( /\ ev'.op = "initialize_all"
      /\ ev'.step = "respond"
      /\ ev'.info.p # 0
      /\ loaded[ev'.info.p]
      /\ ~(ev'.info.roles.given /\ ~InList(JiraRequiredRole, ev'.info.roles.roles)) )
    => /\ ev'.info.ret = {<<JiraName, valid[ev'.info.p]>>}
       /\ UNCHANGED <<loaded, valid, loadCalls, regCalls, tools, handlers>>

\* C10: over any sequence of initialize() calls on a provider object,
\* load_credentials is invoked exactly once, by the first, and register_tools
\* at most once, only when the load returned valid; every later call returns
\* the cached validity and leaves the flags and the tool registry unchanged.
C10_InitializeIsIdempotent == []C10_Counts /\ [][C10_Step]_vars

\* C10 witness: a later initialize() returned the cached validity True.
C10_Witness ==
    /\ ev.op = "initialize_all"
    /\ ev.step = "respond"
    /\ ev.info.p # 0
    /\ ev.info.ret = {<<JiraName, TRUE>>}
    /\ loadCalls[ev.info.p] = 1
    /\ regCalls[ev.info.p] = 1

\* The step just taken is an initialize_all call that found a registered
\* provider and was given a role list without the provider's required_role.
EvRoleGateSkip(e) ==
    /\ e.op = "initialize_all"
    /\ e.step = "respond"
    /\ e.info.p # 0
    /\ e.info.roles.given
    /\ ~InList(JiraRequiredRole, e.info.roles.roles)

\* C11 as stated: an initialize_all call given a role list that lacks the
\* provider's required_role does not invoke load_credentials, returns False
\* for the provider, and check_all_credentials() reports the provider
\* unavailable afterwards.
C11_RoleGateSkipMarksUnavailable ==
    [][ EvRoleGateSkip(ev')
        => /\ loadCalls' = loadCalls
           /\ ev'.info.ret = {<<JiraName, FALSE>>}
           /\ CheckAllCredentials' = {<<JiraName, FALSE>>} ]_vars

\* The load_credentials call of provider object p returned False.
LoadReturnedInvalid(p) == loadEnded[p] = "False"

\* A provider object whose load returned invalid registered no tool, owns no
\* handler and is not available.
C12_Inv ==
    \A p \in ProvObjs :
        LoadReturnedInvalid(p)
        => /\ loaded[p]
           /\ ~valid[p]
           /\ loadCalls[p] = 1
           /\ regCalls[p] = 0
           /\ \A n \in DOMAIN handlers : handlers[n] # p
           /\ (\A q \in ProvObjs : regCalls[q] = 0) => tools = <<>>

\* No step retries it: its load_credentials is not invoked again, it stays
\* unavailable, and every initialize_all and health view taken while it is
\* the registered provider reports False.
C12_Step ==
    \A p \in ProvObjs :
        LoadReturnedInvalid(p)
        => /\ LoadReturnedInvalid(p)'
           /\ loadCalls'[p] = loadCalls[p]
           /\ ~valid'[p]
           /\ (ev'.op = "initialize_all" /\ ev'.info.p = p)
              => (ev'.step = "respond" /\ ev'.info.ret = {<<JiraName, FALSE>>})
           /\ (ev'.op = "health" /\ providers = p)
              => ev'.info.providers = {<<JiraName, FALSE>>}

\* C12: in every reachable state a provider object whose credential load
\* returned invalid has contributed no tool to the registry and is reported
\* unavailable, and no later initialize() or initialize_all() call invokes its
\* load_credentials again.
C12_InvalidProviderNeverRetried == []C12_Inv /\ [][C12_Step]_vars

\* C12 witness: initialize_all with no role list ran again on a provider
\* whose load had returned invalid, and returned False.
C12_Witness ==
    /\ ev.op = "initialize_all"
    /\ ev.step = "respond"
    /\ ev.info.p # 0
    /\ ~ev.info.roles.given
    /\ LoadReturnedInvalid(ev.info.p)
    /\ ev.info.ret = {<<JiraName, FALSE>>}
    /\ loadCalls[ev.info.p] = 1
    /\ tools = <<>>

\* C13 as stated: when load_credentials raises, initialize_all does not
\* raise and records False for the provider, which is unavailable and has
\* registered no tool.
C13_LoadFailureIsCaught ==
    (ev.op = "initialize_all" /\ ev.info.p # 0 /\ loadEnded[ev.info.p] = "raised")
    => /\ ev.exc = ""
       /\ ev.info.ret = {<<JiraName, FALSE>>}
       /\ ~valid[ev.info.p]
       /\ regCalls[ev.info.p] = 0

\* C14 as stated: the tools a tools/list answer presents have pairwise
\* different names, each of the form <provider-name>_<local-name>, and each
\* has a handler in the registry.
C14_ListedNamesAreUnique ==
    ( /\ ev.op = "POST"
      /\ EvMethod(ev, "tools/list")
      /\ ev.resp.status = 200 )
    => LET ts == ev.resp.body.result.tools
       IN  /\ \A i, j \in 1..Len(ts) : ts[i].name = ts[j].name => i = j
           /\ \A i \in 1..Len(ts) :
                 /\ \E l \in 1..Len(JiraLocalTools) :
                       ts[i].name = <<JiraName, "_", JiraLocalTools[l]>>
                 /\ ts[i].name \in DOMAIN handlers

\* C15 as stated (the part about DELETE): a streaming loop whose session has
\* been deleted emits no frame.
C15_NoFrameAfterDelete ==
    (ev.op = "SSE" /\ ev.step = "frame") => ev.sid \in DOMAIN sessions

\* C17: a GET whose session header is missing or names no stored session is
\* answered 400, and a GET on a stored session whose Accept header lacks the
\* streaming media type is answered 405; in both cases no generator is
\* created or started and the session store, queues included, is unchanged.
\* Any other GET is answered 200 and creates the generator.
C17_GetRejectedBeforeStreaming ==
    [][ (ev'.op = "GET")
        => IF ev'.hdr = NoHeader \/ ev'.hdr \notin DOMAIN sessions
           THEN /\ ev'.resp.status = 400
                /\ tasks' = tasks
                /\ sessions' = sessions
           ELSE IF ~ev'.info.accept
           THEN /\ ev'.resp.status = 405
                /\ tasks' = tasks
                /\ sessions' = sessions
           ELSE /\ ev'.resp.status = 200
                /\ ev'.resp.hdr = ev'.hdr
                /\ \E t \in tasks' \ tasks : t.k = "generator" /\ t.sid = ev'.hdr
                /\ sessions' = sessions ]_vars

\* C17 witness: a GET naming a stored session without the streaming media
\* type in Accept was answered 405 while a stream is open on that session.
C17_Witness ==
    /\ ev.op = "GET"
    /\ ev.hdr \in DOMAIN sessions
    /\ ~ev.info.accept
    /\ ev.resp.status = 405
    /\ \E t \in tasks : t.k = "stream" /\ t.sid = ev.hdr

\* C18: a DELETE whose header names a stored session is answered 200 and
\* removes that entry and no other, every other session keeping its server,
\* roles and queue; a DELETE with a missing or unknown id is answered 400
\* and leaves the session store unchanged.
C18_DeleteRemovesExactlyOne ==
    [][ (ev'.op = "DELETE")
        => IF ev'.hdr # NoHeader /\ ev'.hdr \in DOMAIN sessions
           THEN /\ ev'.resp.status = 200
                /\ DOMAIN sessions' = DOMAIN sessions \ {ev'.hdr}
                /\ \A s \in DOMAIN sessions' : sessions'[s] = sessions[s]
           ELSE /\ ev'.resp.status = 400
                /\ sessions' = sessions ]_vars

\* C18 witness: a second DELETE of the same id was answered 400 while
\* another session is stored.
C18_Witness ==
    /\ ev.op = "DELETE"
    /\ ev.hdr \in deleted
    /\ ev.resp.status = 400
    /\ DOMAIN sessions # {}

\* C19: the health view changes no provider flag, invokes neither
\* load_credentials nor register_tools, and leaves the tool registry, the
\* session store and the suspended tasks as they were; the session count it
\* reports is the number of stored sessions and the availability it reports
\* is the _credentials_valid of the registered provider object.
C19_HealthViewIsReadOnly ==
    [][ (ev'.op = "health")
        => /\ UNCHANGED <<sessions, tasks, nobjs, providers, loaded, valid,
                          loadCalls, regCalls, tools, handlers>>
           /\ ev'.info.sessions = Cardinality(DOMAIN sessions)
           /\ ev'.info.providers =
                 (IF providers = 0 THEN {}
                  ELSE {<<JiraName, valid[providers]>>}) ]_vars

\* C19 witness: the health view was taken while the provider's first
\* load_credentials is still awaited and a session is stored.
C19_Witness ==
    /\ ev.op = "health"
    /\ ev.info.sessions = 1
    /\ providers # 0
    /\ loaded[providers]
    /\ \E t \in tasks : t.k = "load" /\ t.p = providers
    /\ ev.info.providers = {<<JiraName, FALSE>>}

\* C20: every JSON-RPC body answering a parsed POST (a result, or an error
\* with code -32601, -32600 or -32603) carries the id of the request: the
\* body's "id" member, null when the body has none.
C20_ResponsesEchoRequestId ==
    ( /\ ev.op = "POST"
      /\ ev.body.kind # "bad"
      /\ ev.resp.body.t \in {"result", "error"} )
    => /\ ev.resp.body.id = (IF ev.body.kind = "dict" THEN ev.body.id ELSE None)
       /\ ev.resp.body.t = "error" => ev.resp.body.code \in {-32601, -32600, -32603}

\* C20 witness: a request with id 7 was answered with an internal error
\* carrying id 7.
C20_Witness ==
    /\ ev.op = "POST"
    /\ ev.body.kind = "dict"
    /\ ev.body.id = 7
    /\ EvError(ev, 500, -32603)
    /\ ev.resp.body.id = 7

\* C21: every POST answered 200 or 202 carries in its mcp-session-id
\* header the id of the session that served it: the presented id when that
\* named a stored session as the request arrived, otherwise the id minted for
\* the session the request created.
C21_SuccessCarriesSessionHeader ==
    [][ ( /\ ev'.op = "POST"
          /\ ev'.step \in {"respond", "resume"}
          /\ ev'.resp.status \in {200, 202} )
        => /\ ev'.resp.hdr = ev'.sid
           /\ ev'.sid \in Ids
           /\ IF ev'.step = "respond"
              THEN IF ev'.hdr \in DOMAIN sessions
                   THEN ev'.sid = ev'.hdr /\ sessions' = sessions
                   ELSE /\ ev'.sid \in minted' \ minted
                        /\ ev'.sid \in DOMAIN sessions' \ DOMAIN sessions
              ELSE \E t \in tasks \ tasks' :
                      \/ /\ t.k = "call"
                         /\ t.hdr = ev'.hdr
                         /\ ev'.sid = ev'.hdr
                      \/ /\ t.k = "extract"
                         /\ t.sid = ev'.sid
                         /\ ev'.sid \in minted
                         /\ ev'.sid \in DOMAIN sessions' \ DOMAIN sessions ]_vars

\* C21 witness: a notification on a stored session was answered 202 with
\* the session's id in the header.
C21_Witness ==
    /\ ev.op = "POST"
    /\ EvMethod(ev, "initialized")
    /\ ev.hdr \in DOMAIN sessions
    /\ ev.resp.status = 202
    /\ ev.resp.hdr = ev.hdr

\* The methods _handle_message has a branch for.
KnownMethods == {"initialize", "initialized", "tools/list", "tools/call", "ping"}

\* C22: on a stored session ping is answered 200 with an empty result and a
\* method outside {initialize, initialized, tools/list, tools/call, ping} is
\* answered with a -32601 error; both carry the request id and the session
\* header, and neither changes the session store, the tool registry, the
\* provider flags or the suspended tasks.
C22_PingAndUnknownAreStateless ==
    [][ ( /\ EvPostArrival(ev')
          /\ ev'.hdr \in DOMAIN sessions
          /\ ev'.body.kind = "dict"
          /\ (ev'.body.method = "ping" \/ ev'.body.method \notin KnownMethods) )
        => /\ ev'.step = "respond"
           /\ ev'.resp.status = 200
           /\ ev'.resp.hdr = ev'.hdr
           /\ ev'.resp.body.id = ev'.body.id
           /\ IF ev'.body.method = "ping"
              THEN /\ ev'.resp.body.t = "result"
                   /\ ev'.resp.body.result = [type |-> "empty"]
              ELSE /\ ev'.resp.body.t = "error"
                   /\ ev'.resp.body.code = -32601
           /\ UNCHANGED <<sessions, minted, tasks, tools, handlers, loaded,
                          valid>> ]_vars

\* C22 witness: an unrecognized method was answered -32601 on a stored
\* session after another session was deleted and the tools were registered.
C22_Witness ==
    /\ ev.op = "POST"
    /\ ev.body.kind = "dict"
    /\ ev.body.method \notin KnownMethods
    /\ ev.hdr \in DOMAIN sessions
    /\ ev.resp.body.t = "error"
    /\ ev.resp.body.code = -32601
    /\ deleted # {}
    /\ tools # <<>>

\* C23: a step that adds a session answers a POST whose method is
\* initialize and whose header named no stored session as it arrived; a POST
\* initialize whose header names a stored session mints no id, leaves the
\* session store unchanged and is answered 200 with the initialize result
\* under the presented id.
C23_OnlyInitializeWithoutSessionCreates ==
    [][ /\ (DOMAIN sessions' \ DOMAIN sessions # {})
           => /\ ev'.op = "POST"
              /\ ev'.body.kind = "dict"
              /\ ev'.body.method = "initialize"
              /\ \/ ev'.step = "respond" /\ ev'.hdr \notin DOMAIN sessions
                 \/ /\ ev'.step = "resume"
                    /\ \E t \in tasks \ tasks' :
                          t.k = "extract" /\ t.hdr = ev'.hdr /\ t.sid = ev'.sid
        /\ ( /\ EvPostArrival(ev')
             /\ EvMethod(ev', "initialize")
             /\ ev'.hdr \in DOMAIN sessions )
           => /\ ev'.step = "respond"
              /\ sessions' = sessions
              /\ minted' = minted
              /\ tasks' = tasks
              /\ ev'.resp.status = 200
              /\ ev'.resp.hdr = ev'.hdr
              /\ ev'.resp.body.t = "result"
              /\ ev'.resp.body.result.type = "init" ]_vars

\* C23 witness: an initialize naming a stored session was answered under
\* that id and the store holds that one session only.
C23_Witness ==
    /\ ev.op = "POST"
    /\ EvMethod(ev, "initialize")
    /\ ev.hdr \in DOMAIN sessions
    /\ ev.resp.status = 200
    /\ ev.resp.hdr = ev.hdr
    /\ DOMAIN sessions = {ev.hdr}
    /\ minted = {ev.hdr}

\* The step just taken ended a POST initialize that found no stored session
\* as it arrived: at once, or after it waited for the role extractor.
C24_Ended ==
    /\ ev'.op = "POST"
    /\ EvMethod(ev', "initialize")
    /\ \/ ev'.step = "respond" /\ ev'.hdr \notin DOMAIN sessions
       \/ ev'.step = "resume"

C24_Inv ==
    \A t \in tasks :
        t.k = "extract"
        => /\ t.sid \in minted
           /\ t.sid \notin created
           /\ t.sid \notin DOMAIN sessions
           /\ \A u \in tasks : (u.k = "extract" /\ u # t) => u.sid # t.sid

C24_Step ==
    C24_Ended
    => IF ev'.exc = ""
       THEN /\ ev'.resp.status = 200
            /\ ev'.sid \notin created
            /\ DOMAIN sessions' = DOMAIN sessions \cup {ev'.sid}
            /\ Cardinality(DOMAIN sessions') = Cardinality(DOMAIN sessions) + 1
            /\ \A s \in DOMAIN sessions : sessions'[s] = sessions[s]
       ELSE sessions' = sessions

C25_Listing ==
    ( /\ ev.op = "POST"
      /\ EvMethod(ev, "tools/list")
      /\ ev.resp.status = 200 )
    => LET ts == ev.resp.body.result.tools
       IN  /\ Len(ts) = Len(tools)
           /\ \A i \in 1..Len(ts) :
                 /\ ts[i] = [name |-> tools[i].name,
                             description |-> tools[i].description,
                             inputSchema |-> tools[i].inputSchema]
                 /\ ts[i].name =
                       <<JiraName, "_",
                         JiraLocalTools[((i - 1) % Len(JiraLocalTools)) + 1]>>

\* A tools/call of a registered tool is handed to its handler on any stored
\* session, and a tools/list is answered, whatever the session's roles.
C25_Step ==
    /\ ( /\ EvPostArrival(ev')
         /\ ev'.hdr \in DOMAIN sessions
         /\ EvMethod(ev', "tools/call")
         /\ ev'.body.params.kind = "dict"
         /\ ev'.body.params.name \in DOMAIN handlers
         /\ ev'.body.params.arguments = "ok" )
       => ev'.step = "suspend"
    /\ ( /\ EvPostArrival(ev')
         /\ ev'.hdr \in DOMAIN sessions
         /\ EvMethod(ev', "tools/list") )
       => (ev'.step = "respond" /\ ev'.resp.status = 200)

C26_DeleteDoesNotCancelAdmitted ==
    [][ /\ (ev'.op = "DELETE") => tasks' = tasks
        /\ ( /\ ev'.op = "POST"
             /\ ev'.step = "resume"
             /\ EvMethod(ev', "tools/call") )
           => /\ \E t \in tasks \ tasks' : t.k = "call" /\ t.hdr = ev'.hdr
              /\ ev'.resp.status = 200
              /\ ev'.resp.hdr = ev'.hdr
              /\ ev'.resp.body.t = "result"
              /\ ev'.resp.body.id = ev'.body.id
              /\ ev'.resp.body.result.type = "content"
              /\ sessions' = sessions ]_vars

\* C26 witness: a tool call was answered 200 under the id of a session that
\* was deleted while the call was suspended.
C26_Witness ==
    /\ ev.op = "POST"
    /\ ev.step = "resume"
    /\ EvMethod(ev, "tools/call")
    /\ ev.texc = ""
    /\ ev.hdr \in deleted
    /\ ev.hdr \notin DOMAIN sessions
    /\ ev.resp.status = 200
    /\ ev.resp.hdr = ev.hdr

\* The load_credentials call of provider object p is being awaited.
LoadPending(p) == \E t \in tasks : t.k = "load" /\ t.p = p

\* C27: an initialize() call on a provider object whose first call is still
\* awaiting load_credentials returns False in the same step, invokes no
\* load_credentials and waits for nothing.
C27_SecondInitializeReturnsFalse ==
    [][ ( /\ ev'.op = "initialize_all"
          /\ ev'.step \in {"respond", "suspend"}
          /\ ev'.info.p # 0
          /\ LoadPending(ev'.info.p)
          /\ ~(ev'.info.roles.given
               /\ ~InList(JiraRequiredRole, ev'.info.roles.roles)) )
        => /\ ev'.step = "respond"
           /\ ev'.info.ret = {<<JiraName, FALSE>>}
           /\ loadCalls' = loadCalls
           /\ tasks' = tasks
           /\ UNCHANGED <<loaded, valid, regCalls, tools, handlers>> ]_vars

\* C27 witness: a second call returned False while the first still awaits
\* load_credentials.
C27_Witness ==
    /\ ev.op = "initialize_all"
    /\ ev.step = "respond"
    /\ ev.info.p # 0
    /\ ~ev.info.roles.given
    /\ LoadPending(ev.info.p)
    /\ ev.info.ret = {<<JiraName, FALSE>>}
    /\ loadCalls[ev.info.p] = 1

\* C28: in every reachable state the queue of every stored session is
\* empty, and every frame a streaming loop emits is a keep-alive frame.
C28_QueuesStayEmpty ==
    /\ \A s \in DOMAIN sessions : sessions[s].message_queue = <<>>
    /\ (ev.op = "SSE" /\ ev.step = "frame")
       => (ev.resp.body.t = "frame" /\ ev.resp.body.message = <<": keep-alive">>)

\* C28 witness: a keep-alive frame was emitted on a stored session while
\* the jira tools are registered.
C28_Witness ==
    /\ ev.op = "SSE"
    /\ ev.step = "frame"
    /\ ev.sid \in DOMAIN sessions
    /\ sessions[ev.sid].message_queue = <<>>
    /\ tools # <<>>

====
